---- MODULE Spec2Model ----
(***************************************************************************)
(* Model of the Infobip channel handler (handlers/infobip/infobip.go):     *)
(* the three entry points ReceiveMessage, StatusMessage and SendMsg, each  *)
(* one atomic call on per-call state, with the backend, the HTTP client    *)
(* and the clock as inputs of the call.                                     *)
(***************************************************************************)
EXTENDS Integers, Sequences, FiniteSets, TLC

\* ---------------------------------------------------------------- bounds
MaxResults == 2      \* longest results array of a webhook body
MaxCount == 2        \* largest declared messageCount
MaxGroupID == 4      \* largest groupId of a gateway response

\* ------------------------------------------------------- values and sets
NoError == "nil"

\* errors the backend collaborator may hand back from a write
BackendErrors == {"backend: connection refused", "backend: deadline exceeded"}

\* time.Now() at the moment of the call, in Unix seconds
Now == 1500000000

\* receivedAt strings of the webhook: absent, two well-formed, one malformed
DateStrings ==
  {"", "2016-10-06T09:28:39.220+0000", "2016-10-06T09:28:39.220+0200",
   "2016-10-06 09:28:39"}

\* time.Parse("2006-01-02T15:04:05.999999999-0700", s): the instant in Unix
\* seconds, or a parse error
ParseTime(s) ==
  CASE s = "2016-10-06T09:28:39.220+0000" -> [err |-> NoError, date |-> 1475746119]
    [] s = "2016-10-06T09:28:39.220+0200" -> [err |-> NoError, date |-> 1475738919]
    [] OTHER -> [err |-> "parsing time: cannot parse", date |-> 0]

\* one element of "results" in the inbound-message webhook
InfobipMessages ==
  [MessageID : {"817790313235066447", "817790313235066448"},
   From : {"", "385916242493"},
   Text : {"", "QUIZ Correct answer is Paris"},
   ReceivedAt : DateStrings]

SeqsUpTo(S, n) == UNION {[1..k -> S] : k \in 0..n}

\* the request body of the receive route: malformed JSON, or an object whose
\* "results" key is absent (nil slice) or an array
MalformedBody ==
  [wellFormed |-> FALSE, MessageCount |-> 0, hasResults |-> FALSE, Results |-> <<>>]

ReceiveBodies ==
  {MalformedBody}
  \cup {[wellFormed |-> TRUE, MessageCount |-> c, hasResults |-> FALSE, Results |-> <<>>] :
          c \in 0..MaxCount}
  \cup {[wellFormed |-> TRUE, MessageCount |-> c, hasResults |-> TRUE, Results |-> r] :
          c \in 0..MaxCount, r \in SeqsUpTo(InfobipMessages, MaxResults)}

\* which backend write of the call fails (0: none) and with what error
WriteFailures ==
  {[at |-> 0, err |-> NoError]}
  \cup {[at |-> k, err |-> e] : k \in 1..MaxResults, e \in BackendErrors}

\* --------------------------------------------------------------- state
VARIABLES
  pc,            \* "idle": no call in progress; "returned": a handler has returned
  op,            \* the entry point that ran
  req,           \* the inputs of the call
  response,      \* what the handler wrote to the http.ResponseWriter
  events,        \* the []courier.Event the handler returned
  err,           \* the error the handler returned
  writeAttempts, \* every backend write the call attempted, in order
  written,       \* the backend writes that succeeded, in order
  httpCalls,     \* the HTTP requests issued to the gateway
  status,        \* the courier.MsgStatus SendMsg returned (empty: nil)
  panic          \* the Go runtime panic the call ended with, if any

vars == <<pc, op, req, response, events, err, writeAttempts, written,
          httpCalls, status, panic>>

NoResponse == [kind |-> "none", detail |-> "", data |-> <<>>]

\* courier.WriteError: an error response carrying the error's text
WriteError(e) == [kind |-> "error", detail |-> e, data |-> <<>>]

\* courier.WriteIgnored
WriteIgnored(text) == [kind |-> "ignored", detail |-> text, data |-> <<>>]

\* courier.WriteMsgSuccess
WriteMsgSuccess(msgs) == [kind |-> "success", detail |-> "Message Accepted", data |-> msgs]

\* courier.WriteStatusSuccess
WriteStatusSuccess(statuses) ==
  [kind |-> "success", detail |-> "Status Update Accepted", data |-> statuses]

\* --------------------------------------------------- decode and validate
\* the `validate:"required"` tag on a slice field: the field is not nil, that
\* is, the key is present in the JSON object
RequiredSlice(present, s) == present

\* the `validate:"required"` tag on a string field
RequiredString(s) == s # ""

\* the `validate:"required"` tag on an integer field
RequiredInt(n) == n # 0

\* handlers.DecodeAndValidateJSON on an infobipEnvelope
DecodeReceive(body) ==
  IF ~body.wellFormed THEN "unable to parse request JSON"
  ELSE IF ~RequiredSlice(body.hasResults, body.Results)
          \/ \E i \in 1..Len(body.Results) : ~RequiredString(body.Results[i].From)
       THEN "request JSON doesn't pass validation"
       ELSE NoError

\* ------------------------------------------------------- ReceiveMessage
\* urns.NewTelURNForCountry
NewTelURN(from) == [scheme |-> "tel", path |-> from]

\* Backend().NewIncomingMsg(channel, urn, text).WithReceivedOn(date).WithExternalID(messageID)
NewIncomingMsg(m, date) ==
  [urn |-> NewTelURN(m.From), text |-> m.Text, receivedOn |-> date,
   externalID |-> m.MessageID]

\* SkipRecord with the empty-text test left out
SkipRecordNever(m) == FALSE

\* the `if text == ""  continue` of the loop
SkipRecord(m) == m.Text = ""

\* the date of a record: time.Now() unless receivedAt is given
ReceivedDate(m) ==
  IF m.ReceivedAt # "" THEN ParseTime(m.ReceivedAt)
  ELSE [err |-> NoError, date |-> Now]

\* Backend().WriteMsg: the n-th write of the call fails when the backend says so
WriteResult(fail, n) == IF fail.at = n THEN fail.err ELSE NoError

LoopStart ==
  [msgs |-> <<>>, attempts |-> <<>>, returned |-> FALSE,
   response |-> NoResponse, err |-> NoError]

\* ReceiveRecord going on to the next record after a failed write
ReceiveRecordContinue(st, m, fail) ==
  IF st.returned \/ SkipRecord(m) THEN st
  ELSE LET d == ReceivedDate(m) IN
    IF d.err # NoError
    THEN [st EXCEPT !.returned = TRUE, !.response = WriteError(d.err)]
    ELSE LET msg == NewIncomingMsg(m, d.date)
             werr == WriteResult(fail, Len(st.attempts) + 1)
         IN IF werr # NoError
            THEN [st EXCEPT !.attempts = Append(@, msg)]
            ELSE [st EXCEPT !.attempts = Append(@, msg), !.msgs = Append(@, msg)]

\* one iteration of the loop over ie.Results
ReceiveRecord(st, m, fail) ==
  IF st.returned \/ SkipRecord(m) THEN st
  ELSE LET d == ReceivedDate(m) IN
    IF d.err # NoError
    THEN [st EXCEPT !.returned = TRUE, !.response = WriteError(d.err)]
    ELSE LET msg == NewIncomingMsg(m, d.date)
             werr == WriteResult(fail, Len(st.attempts) + 1)
         IN IF werr # NoError
            THEN [st EXCEPT !.attempts = Append(@, msg), !.returned = TRUE,
                            !.err = werr]
            ELSE [st EXCEPT !.attempts = Append(@, msg), !.msgs = Append(@, msg)]

RECURSIVE ReceiveLoop(_, _, _, _)
ReceiveLoop(st, results, i, fail) ==
  IF i > Len(results) THEN st
  ELSE ReceiveLoop(ReceiveRecord(st, results[i], fail), results, i + 1, fail)

\* NoMessage with the count test left out
NoMessageNever(ie) == FALSE

\* the `ie.MessageCount == 0` test
NoMessage(ie) == ie.MessageCount = 0

\* the event ReceiveMessage returns on success
FirstEvent(msgs) == <<msgs[1]>>

\* the whole of ReceiveMessage: response, events, error and backend writes
ReceiveOutcome(body, fail) ==
  LET derr == DecodeReceive(body) IN
  IF derr # NoError
  THEN [response |-> WriteError(derr), events |-> <<>>, err |-> NoError,
        attempts |-> <<>>, written |-> <<>>]
  ELSE IF NoMessage(body)
  THEN [response |-> WriteIgnored("ignoring request, no message"), events |-> <<>>,
        err |-> NoError, attempts |-> <<>>, written |-> <<>>]
  ELSE LET st == ReceiveLoop(LoopStart, body.Results, 1, fail) IN
    IF st.returned
    THEN [response |-> st.response, events |-> <<>>, err |-> st.err,
          attempts |-> st.attempts, written |-> st.msgs]
    ELSE IF Len(st.msgs) = 0
    THEN [response |-> WriteIgnored("ignoring request, no message"), events |-> <<>>,
          err |-> NoError, attempts |-> st.attempts, written |-> st.msgs]
    ELSE [response |-> WriteMsgSuccess(st.msgs), events |-> FirstEvent(st.msgs),
          err |-> NoError, attempts |-> st.attempts, written |-> st.msgs]

ReceiveMessage ==
  /\ pc = "idle"
  /\ \E body \in ReceiveBodies, fail \in WriteFailures :
       LET out == ReceiveOutcome(body, fail) IN
       /\ pc' = "returned"
       /\ op' = "ReceiveMessage"
       /\ req' = [body |-> body, fail |-> fail]
       /\ response' = out.response
       /\ events' = out.events
       /\ err' = out.err
       /\ writeAttempts' = out.attempts
       /\ written' = out.written
  /\ UNCHANGED <<httpCalls, status, panic>>

\* -------------------------------------------------------- StatusMessage
\* courier.MsgStatusValue
MsgSent == "S"
MsgDelivered == "D"
MsgFailed == "F"
MsgErrored == "E"
MsgWired == "W"

GroupNames ==
  {"", "PENDING", "EXPIRED", "DELIVERED", "REJECTED", "UNDELIVERABLE", "ACCEPTED"}

\* one element of "results" in the delivery-report webhook (messageId 0: absent)
IbStatuses == [MessageID : {0, 12345, 12346}, GroupName : GroupNames]

StatusBodies ==
  {MalformedBody}
  \cup {[wellFormed |-> TRUE, MessageCount |-> 0, hasResults |-> FALSE, Results |-> <<>>]}
  \cup {[wellFormed |-> TRUE, MessageCount |-> 0, hasResults |-> TRUE, Results |-> r] :
          r \in SeqsUpTo(IbStatuses, MaxResults)}

\* infobipStatusMapping with EXPIRED taken as a failure
infobipStatusMappingExpiredFailed ==
  [n \in {"PENDING", "EXPIRED", "DELIVERED", "REJECTED", "UNDELIVERABLE"} |->
     CASE n = "PENDING" -> MsgSent
       [] n = "EXPIRED" -> MsgFailed
       [] n = "DELIVERED" -> MsgDelivered
       [] n = "REJECTED" -> MsgFailed
       [] n = "UNDELIVERABLE" -> MsgFailed]

infobipStatusMapping ==
  [n \in {"PENDING", "EXPIRED", "DELIVERED", "REJECTED", "UNDELIVERABLE"} |->
     CASE n = "PENDING" -> MsgSent
       [] n = "EXPIRED" -> MsgSent
       [] n = "DELIVERED" -> MsgDelivered
       [] n = "REJECTED" -> MsgFailed
       [] n = "UNDELIVERABLE" -> MsgFailed]

\* handlers.DecodeAndValidateJSON on an ibStatusEnvelope
DecodeStatus(body) ==
  IF ~body.wellFormed THEN "unable to parse request JSON"
  ELSE IF ~RequiredSlice(body.hasResults, body.Results)
          \/ \E i \in 1..Len(body.Results) :
               \/ ~RequiredInt(body.Results[i].MessageID)
               \/ ~RequiredString(body.Results[i].GroupName)
       THEN "request JSON doesn't pass validation"
       ELSE NoError

\* StatusRecord reading the last record of the batch
StatusRecordLast(results) == results[Len(results)]

\* the record StatusMessage reads: ibStatusEnvelope.Results[0]
StatusRecord(results) == results[1]

\* Backend().NewMsgStatusForID(channel, courier.NewMsgID(id), status)
NewMsgStatusForID(id, value) == [id |-> id, value |-> value, logs |-> <<>>]

IndexOutOfRange == "runtime error: index out of range"

\* the whole of StatusMessage
StatusOutcome(body, fail) ==
  LET derr == DecodeStatus(body)
      none == [response |-> NoResponse, events |-> <<>>, err |-> NoError,
               attempts |-> <<>>, written |-> <<>>, panic |-> ""]
  IN
  IF derr # NoError THEN [none EXCEPT !.response = WriteError(derr)]
  ELSE IF Len(body.Results) = 0 THEN [none EXCEPT !.panic = IndexOutOfRange]
  ELSE LET rec == StatusRecord(body.Results) IN
    IF rec.GroupName \notin DOMAIN infobipStatusMapping
    THEN [none EXCEPT !.response = WriteError("unknown status")]
    ELSE LET st == NewMsgStatusForID(rec.MessageID, infobipStatusMapping[rec.GroupName])
             werr == WriteResult(fail, 1)
         IN IF werr # NoError
            THEN [none EXCEPT !.err = werr, !.attempts = <<st>>]
            ELSE [none EXCEPT !.attempts = <<st>>, !.written = <<st>>,
                              !.events = <<st>>,
                              !.response = WriteStatusSuccess(<<st>>)]

StatusMessage ==
  /\ pc = "idle"
  /\ \E body \in StatusBodies, fail \in WriteFailures :
       LET out == StatusOutcome(body, fail) IN
       /\ pc' = "returned"
       /\ op' = "StatusMessage"
       /\ req' = [body |-> body, fail |-> fail]
       /\ response' = out.response
       /\ events' = out.events
       /\ err' = out.err
       /\ writeAttempts' = out.attempts
       /\ written' = out.written
       /\ panic' = out.panic
  /\ UNCHANGED <<httpCalls, status>>

\* -------------------------------------------------------------- SendMsg
sendURL == "https://api.infobip.com/sms/1/text/advanced"

\* the response bodies of the gateway: not JSON, JSON without
\* messages[0].status.groupId, or JSON with that number
ResponseBodies ==
  {[kind |-> "garbage", groupId |-> 0], [kind |-> "nopath", groupId |-> 0]}
  \cup {[kind |-> "json", groupId |-> g] : g \in 0..MaxGroupID}

\* what utils.MakeHTTPRequest hands back: a transport error, or a response
HTTPResults ==
  {[err |-> "Post: dial tcp: connection refused",
    body |-> [kind |-> "garbage", groupId |-> 0]]}
  \cup {[err |-> NoError, body |-> b] : b \in ResponseBodies}

SendRequests ==
  [username : {"", "user1"}, password : {"", "pass1"}, http : HTTPResults]

\* jsonparser.GetInt(body, "messages", "[0]", "status", "groupId")
GetInt(body) ==
  IF body.kind = "json" THEN [err |-> NoError, val |-> body.groupId]
  ELSE [err |-> "Key path not found", val |-> 0]

\* AcceptedGroupID taking every group up to 3
AcceptedGroupIDUpTo3(g) == g >= 1 /\ g <= 3

\* the group ids the handler takes as accepted by the gateway
AcceptedGroupID(g) == g = 1 \/ g = 3

\* ConfigError with the password check left out
ConfigErrorNoPasswordCheck(username, password) ==
  IF username = "" THEN "no username set for IB channel"
  ELSE NoError

\* the error the credential checks return, if any
ConfigError(username, password) ==
  IF username = "" THEN "no username set for IB channel"
  ELSE IF password = "" THEN "no password set for IB channel"
  ELSE NoError

\* courier.NewChannelLogFromRR("Message Sent", channel, id, rr)
NewChannelLogFromRR(rr) == [description |-> "Message Sent", rr |-> rr, err |-> ""]

\* SendStatus reading the response without looking at the transport error
SendStatusNoTransportCheck(rr) ==
  LET log == NewChannelLogFromRR(rr)
      errored == NewMsgStatusForID(1, MsgErrored)
      g == GetInt(rr.body)
  IN
  IF g.err # NoError \/ ~(g.val = 1 \/ g.val = 3)
  THEN [errored EXCEPT !.logs = <<[log EXCEPT !.err = "received error status"]>>]
  ELSE [errored EXCEPT !.logs = <<log>>, !.value = MsgWired]

\* the status returned once the HTTP call is over, its log attached
SendStatus(rr) ==
  LET log == NewChannelLogFromRR(rr)
      errored == NewMsgStatusForID(1, MsgErrored)
  IN
  IF rr.err # NoError
  THEN [errored EXCEPT !.logs = <<[log EXCEPT !.err = rr.err]>>]
  ELSE LET g == GetInt(rr.body) IN
    IF g.err # NoError \/ ~AcceptedGroupID(g.val)
    THEN [errored EXCEPT !.logs = <<[log EXCEPT !.err = "received error status"]>>]
    ELSE [errored EXCEPT !.logs = <<log>>, !.value = MsgWired]

SendMsg ==
  /\ pc = "idle"
  /\ \E r \in SendRequests :
       LET cerr == ConfigError(r.username, r.password) IN
       /\ pc' = "returned"
       /\ op' = "SendMsg"
       /\ req' = r
       /\ IF cerr # NoError
          THEN /\ err' = cerr
               /\ httpCalls' = <<>>
               /\ status' = <<>>
          ELSE /\ err' = NoError
               /\ httpCalls' = <<[url |-> sendURL, username |-> r.username,
                                  password |-> r.password]>>
               /\ status' = <<SendStatus(r.http)>>
  /\ UNCHANGED <<response, events, writeAttempts, written, panic>>

\* ---------------------------------------------------------- dispatcher
Init ==
  /\ pc = "idle"
  /\ op = "none"
  /\ req = [body |-> MalformedBody, fail |-> [at |-> 0, err |-> NoError]]
  /\ response = NoResponse
  /\ events = <<>>
  /\ err = NoError
  /\ writeAttempts = <<>>
  /\ written = <<>>
  /\ httpCalls = <<>>
  /\ status = <<>>
  /\ panic = ""

\* the call is over and its locals are gone: the routes registered by
\* Initialize take the next request
NextRequest ==
  /\ pc = "returned"
  /\ pc' = "idle"
  /\ op' = "none"
  /\ req' = [body |-> MalformedBody, fail |-> [at |-> 0, err |-> NoError]]
  /\ response' = NoResponse
  /\ events' = <<>>
  /\ err' = NoError
  /\ writeAttempts' = <<>>
  /\ written' = <<>>
  /\ httpCalls' = <<>>
  /\ status' = <<>>
  /\ panic' = ""

Next == ReceiveMessage \/ StatusMessage \/ SendMsg \/ NextRequest

Spec == Init /\ [][Next]_vars

\* ============================================================== claims
Returned(o) == pc = "returned" /\ op = o

\* the receive call got past decoding and validation
ReceiveDecoded == Returned("ReceiveMessage") /\ DecodeReceive(req.body) = NoError

\* the status call got past decoding and validation
StatusDecoded == Returned("StatusMessage") /\ DecodeStatus(req.body) = NoError

Malformed(m) == m.Text # "" /\ m.ReceivedAt # "" /\ ParseTime(m.ReceivedAt).err # NoError

HasMalformed(results) == \E i \in 1..Len(results) : Malformed(results[i])

HasText(results) == \E i \in 1..Len(results) : results[i].Text # ""

\* the messages a batch should lead to: its non-empty-text records, in order
ExpectedMsgs(results) ==
  LET sel == SelectSeq(results, LAMBDA m : m.Text # "") IN
  [i \in 1..Len(sel) |->
     [urn |-> [scheme |-> "tel", path |-> sel[i].From],
      text |-> sel[i].Text,
      receivedOn |-> IF sel[i].ReceivedAt = "" THEN Now ELSE ParseTime(sel[i].ReceivedAt).date,
      externalID |-> sel[i].MessageID]]

\* the backend accepts every write the batch leads to
BackendAccepts(results, fail) == fail.at = 0 \/ fail.at > Len(ExpectedMsgs(results))

\* C1: a batch with a non-empty-text record whose receivedAt is malformed
\* (declared count non-zero, backend accepting) is answered with an error
\* response, and when that error is returned no message of the batch has been
\* written, the records before the malformed one included.
C1_NoPartialPersistence ==
  (ReceiveDecoded /\ HasMalformed(req.body.Results))
    => /\ (req.body.MessageCount # 0 /\ req.fail.at = 0) => response.kind = "error"
       /\ response.kind = "error" => (written = <<>> /\ writeAttempts = <<>>)

PersistsExactly(results) ==
  /\ written = ExpectedMsgs(results)
  /\ writeAttempts = written
  /\ response = [kind |-> "success", detail |-> "Message Accepted",
                 data |-> ExpectedMsgs(results)]
  /\ events = <<ExpectedMsgs(results)[1]>>
  /\ err = NoError

C3_Case ==
  /\ ReceiveDecoded
  /\ HasText(req.body.Results)
  /\ ~HasMalformed(req.body.Results)
  /\ BackendAccepts(req.body.Results, req.fail)

\* C3 as claimed: every batch with a non-empty-text record, valid or absent
\* timestamps and an accepting backend has exactly its non-empty-text records
\* persisted, whatever its declared count.
C3_PersistsExactly_Original == C3_Case => PersistsExactly(req.body.Results)

\* C3 (amended): every batch whose declared messageCount is not zero, with a
\* non-empty-text record, valid or absent timestamps on all of them and an
\* accepting backend, has exactly its non-empty-text records persisted, once
\* each and in array order, the empty-text ones skipped, and is answered with a
\* success acknowledgment carrying all of them, the first being the event.
C3_PersistsExactly ==
  (C3_Case /\ req.body.MessageCount # 0) => PersistsExactly(req.body.Results)

C3_Witness ==
  /\ C3_Case
  /\ req.body.MessageCount # 0
  /\ Len(req.body.Results) >= 2
  /\ req.body.Results[1].Text = ""
  /\ req.body.Results[2].ReceivedAt = "2016-10-06T09:28:39.220+0200"
  /\ Len(written) = 1
  /\ response.kind = "success"

\* C4: a decoded batch whose declared messageCount is zero, or whose records
\* all have empty text, gets the "ignored" answer: no error, no success, no
\* event, nothing persisted.
C4_Ignored ==
  (ReceiveDecoded /\ (req.body.MessageCount = 0 \/ ~HasText(req.body.Results)))
    => /\ response.kind = "ignored"
       /\ events = <<>>
       /\ err = NoError
       /\ written = <<>>
       /\ writeAttempts = <<>>

C4_Witness ==
  /\ ReceiveDecoded
  /\ req.body.MessageCount = 0
  /\ HasText(req.body.Results)
  /\ response.kind = "ignored"

\* the status the spec gives to a group name
SpecStatus(g) ==
  CASE g = "PENDING" -> "S"
    [] g = "EXPIRED" -> "S"
    [] g = "DELIVERED" -> "D"
    [] g = "REJECTED" -> "F"
    [] g = "UNDELIVERABLE" -> "F"
    [] OTHER -> "none"

\* C5: the first record's group name PENDING, EXPIRED, DELIVERED, REJECTED,
\* UNDELIVERABLE leads to the status Sent, Sent, Delivered, Failed, Failed; any
\* other name is answered with an "unknown status" error, nothing is written
\* and no default status is made up.
C5_StatusMapping ==
  (StatusDecoded /\ Len(req.body.Results) >= 1)
    => LET g == req.body.Results[1].GroupName IN
       IF SpecStatus(g) # "none"
       THEN /\ Len(writeAttempts) = 1
            /\ writeAttempts[1].value = SpecStatus(g)
            /\ response.kind # "error"
       ELSE /\ response = [kind |-> "error", detail |-> "unknown status", data |-> <<>>]
            /\ writeAttempts = <<>>
            /\ written = <<>>
            /\ events = <<>>

C5_Witness ==
  /\ StatusDecoded
  /\ Len(req.body.Results) >= 1
  /\ req.body.Results[1].GroupName = "EXPIRED"
  /\ Len(written) = 1
  /\ written[1].value = "S"

CredentialsMissing == req.username = "" \/ req.password = ""

\* C6: SendMsg on a channel without username or without password issues no
\* HTTP request, returns no status, and returns a configuration error.
C6_NoCredentialsNoCall ==
  (Returned("SendMsg") /\ CredentialsMissing)
    => /\ httpCalls = <<>>
       /\ status = <<>>
       /\ err \in {"no username set for IB channel", "no password set for IB channel"}

C6_Witness ==
  /\ Returned("SendMsg")
  /\ req.username # ""
  /\ req.password = ""
  /\ err = "no password set for IB channel"

\* C7: with credentials present and the HTTP call failing in transport,
\* SendMsg returns a nil error and a status that is Errored, never Wired, whose
\* one log record carries the transport error.
C7_TransportErrorErrored ==
  (Returned("SendMsg") /\ ~CredentialsMissing /\ req.http.err # NoError)
    => /\ err = NoError
       /\ Len(httpCalls) = 1
       /\ Len(status) = 1
       /\ status[1].value = "E"
       /\ Len(status[1].logs) = 1
       /\ status[1].logs[1].err = req.http.err

C7_Witness ==
  /\ Returned("SendMsg")
  /\ ~CredentialsMissing
  /\ req.http.err # NoError
  /\ Len(status) = 1
  /\ status[1].value = "E"

\* C8: when the HTTP call completes, the returned status is Wired exactly when
\* the body parses and messages[0].status.groupId is 1 or 3; otherwise it is
\* Errored with an error on its log; the returned error is nil either way.
C8_WiredIffAccepted ==
  (Returned("SendMsg") /\ ~CredentialsMissing /\ req.http.err = NoError)
    => /\ err = NoError
       /\ Len(status) = 1
       /\ status[1].value = "W"
            <=> (req.http.body.kind = "json" /\ req.http.body.groupId \in {1, 3})
       /\ status[1].value # "W"
            => (status[1].value = "E" /\ status[1].logs[1].err # "")

C8_Witness ==
  /\ Returned("SendMsg")
  /\ req.http.err = NoError
  /\ req.http.body.groupId = 3
  /\ Len(status) = 1
  /\ status[1].value = "W"

\* the batch cut down to its first record
FirstOnly(body) == [body EXCEPT !.Results = <<body.Results[1]>>]

\* C9: StatusMessage on a batch of one or more records looks at the first
\* record only: on success it writes one status, with the first record's
\* message id and the status of the first record's group name, and returns it
\* as the only event; the call ends as it would on the first record alone.
C9_FirstRecordOnly ==
  (StatusDecoded /\ Len(req.body.Results) >= 1)
    => LET first == req.body.Results[1]
           alone == StatusOutcome(FirstOnly(req.body), req.fail)
       IN /\ Len(writeAttempts) <= 1
          /\ response.kind = "success"
               => /\ written = <<[id |-> first.MessageID,
                                  value |-> SpecStatus(first.GroupName),
                                  logs |-> <<>>]>>
                  /\ writeAttempts = written
                  /\ events = written
                  /\ response.data = written
          /\ response = alone.response
          /\ events = alone.events
          /\ err = alone.err
          /\ writeAttempts = alone.attempts
          /\ written = alone.written
          /\ panic = alone.panic

C9_Witness ==
  /\ StatusDecoded
  /\ Len(req.body.Results) >= 2
  /\ req.body.Results[1].GroupName = "DELIVERED"
  /\ req.body.Results[2].GroupName = "ACCEPTED"
  /\ req.body.Results[2].MessageID # req.body.Results[1].MessageID
  /\ response.kind = "success"
  /\ Len(written) = 1

\* a backend write of the call failed
WriteFailed ==
  /\ pc = "returned"
  /\ op \in {"ReceiveMessage", "StatusMessage"}
  /\ req.fail.at \in 1..Len(writeAttempts)

\* C10: when a backend write fails in ReceiveMessage or StatusMessage, the
\* handler returns the backend's error as it is, the failed write is the last
\* write of the call (no retry, no further write), and no acknowledgment,
\* success or ignored, is written.
C10_WriteFailurePropagated ==
  WriteFailed
    => /\ err = req.fail.err
       /\ Len(writeAttempts) = req.fail.at
       /\ written = SubSeq(writeAttempts, 1, req.fail.at - 1)
       /\ response.kind = "none"
       /\ events = <<>>

C10_Witness ==
  /\ WriteFailed
  /\ op = "ReceiveMessage"
  /\ req.fail.at = 2
  /\ Len(written) = 1
  /\ err = "backend: deadline exceeded"
====
